---- MODULE Spec2Model ----
(***************************************************************************)
(* Task status changes of the project-management front end.                *)
(*                                                                         *)
(* The board (TaskBoard.tsx) and the edit dialog (EditTaskModal.tsx) send  *)
(* updateTaskStatus / updateTask mutations through Apollo Client.  The     *)
(* board passes an optimisticResponse, so Apollo keeps one optimistic      *)
(* layer per mutation on top of the normalized cache until that mutation   *)
(* settles; the visible status of a task is read through those layers.     *)
(* The GraphQL back end is not part of the front-end sources: it is the    *)
(* authoritative store, modelled as a nondeterministic gateway that        *)
(* accepts (returning the authoritative task record), rejects              *)
(* (success=false, task null), answers with a GraphQL error, or is         *)
(* unreachable (the request never takes effect and the promise rejects).   *)
(***************************************************************************)
EXTENDS Integers, Sequences, FiniteSets, TLC

\* ------------------------------------------------------------------ bounds
\* Number of mutations (updateTaskStatus + updateTask) issued in one run.
MaxReq == 2

\* Number of toasts the toast-list specifications add in one run.
MaxToasts == 2

\* Number of fade-out timers one toast can have pending (one per close).
MaxFade == 2

\* createTask / addTaskComment mutations sent in one run
MaxCalls == 2

\* ---------------------------------------------------------------- fixtures
Tasks == {"t1", "t2"}
Statuses == {"TODO", "IN_PROGRESS", "DONE"}
None == "none"

\* App.selectedTask when it is undefined
NoTask == [id |-> None, status |-> None]

\* Task.assigneeEmail: t1 is assigned, t2 is not.
assigneeEmail(t) == IF t = "t1" THEN "john@example.com" ELSE ""

\* status of the project's tasks when the board has loaded
InitialStatus == [t \in Tasks |-> IF t = "t1" THEN "TODO" ELSE "IN_PROGRESS"]

\* the projects of the organization
Projects == {"p1"}

\* project.organization.slug of the board's project
organizationSlug == "acme"

\* `#${project.organization.slug}`: the chat room the Slack toasts name
room == "#acme"

\* ids a drag can carry: a task of the list, or a card that is no longer in it
DragIds == Tasks \cup {"t_gone"}

\* drop targets a drag can end on; None is `over == null`
DropZones == {None, "column-TODO", "column-IN_PROGRESS", "column-DONE", "trash"}

VARIABLES
  server,        \* authoritative store: status of every task
  cache,         \* Apollo normalized cache, root layer: status of every task
  optimistic,    \* Apollo optimistic layers, oldest first: [id, task, status]
  reqs,          \* mutations awaiting their result, one record each
  nextId,        \* Apollo's mutation id counter
  refetch,       \* the refetchQueries round trip: [phase, snap]
  activeTask,    \* TaskBoard.activeTask: the card in the drag overlay, None
                 \* outside a drag
  selectedTask,  \* App.selectedTask: the Task object handed to EditTaskModal
  showEditTask,  \* App.showEditTask
  isLoading,     \* EditTaskModal.isLoading
  errors,        \* EditTaskModal.errors
  toasts,        \* ToastProvider.toasts
  toastCount,    \* number of toasts created so far (toast ids)
  newest,        \* history: per task, the status request issued last and its fate
  autoFired,     \* Toast: ids of the mounted toasts whose auto-dismiss timer
                 \* has fired
  fadeOut,       \* Toast: per toast id, the number of pending fade-out timers
  committed,     \* history: the status requests the back end accepted, in the
                 \* order it accepted them
  notified,      \* history: the status requests whose toasts were shown, in
                 \* the order they were shown
  project,       \* Apollo cache: the counters of the project in the result of
                 \* PROJECTS_BY_ORGANIZATION (what ProjectCard shows)
  projRefetch,   \* the refetch round trip of PROJECTS_BY_ORGANIZATION
  showCreateTask,   \* App: CreateTaskModal is open
  showTaskDetail,   \* App: TaskDetailModal is open
  selectedTaskId,   \* App: the task TaskDetailModal shows
  createIsLoading,  \* CreateTaskModal: isLoading
  createErrors,     \* CreateTaskModal: errors
  newComment,       \* TaskCommentsPanel: the comment field
  authorEmail,      \* TaskCommentsPanel: the author field
  isSubmitting,     \* TaskCommentsPanel: isSubmitting
  error,            \* TaskCommentsPanel: error
  calls,            \* createTask / addTaskComment mutations in flight
  nextCall,         \* number of the next such mutation
  stored,           \* back end: the tasks created and comments added, in order
  showCreateProject,  \* App: CreateProjectModal is open
  showEditProject,    \* App: EditProjectModal is open
  currentView,        \* App: 'projects' or 'tasks'
  selectedProject     \* App: the project whose board is shown or edited

\* the state of the board and the edit dialog
boardVars == <<server, cache, optimistic, reqs, nextId, refetch, activeTask,
               selectedTask, showEditTask, isLoading, errors, newest>>

\* the toast list
toastVars == <<toasts, toastCount>>

\* the timers of the Toast components
timerVars == <<autoFired, fadeOut>>

\* history of commits and notifications
orderVars == <<committed, notified>>

\* the project list
projectVars == <<project, projRefetch>>

\* the modal flags of App besides showEditTask
appVars == <<showCreateTask, showTaskDetail, selectedTaskId,
             showCreateProject, showEditProject>>

\* the page App shows
navVars == <<currentView, selectedProject>>

\* CreateTaskModal and TaskCommentsPanel
formVars == <<createIsLoading, createErrors, newComment, authorEmail,
              isSubmitting, error>>

\* the mutations of the two forms and what the back end keeps of them
callVars == <<calls, nextCall, stored>>

composeVars == <<appVars, navVars, formVars, callVars>>

vars == <<boardVars, toastVars, timerVars, orderVars, projectVars,
          composeVars>>

\* everything but the board, the edit dialog and the toast list
offBoard == <<timerVars, orderVars, projectVars, composeVars>>

\* everything but the board, the edit dialog, the toast list and its timers
offToast == <<orderVars, projectVars, composeVars>>

\* ----------------------------------------------------------- Apollo cache
RECURSIVE TopLayer(_, _, _)
\* status of task t in the topmost of the first n optimistic layers, or None
TopLayer(layers, n, t) ==
  IF n = 0 THEN None
  ELSE IF layers[n].task = t THEN layers[n].status
  ELSE TopLayer(layers, n - 1, t)

\* What useQuery(TASKS_BY_PROJECT) hands to the board: optimistic layers
\* shadow the root layer.
VisibleIn(layers, root, t) ==
  IF TopLayer(layers, Len(layers), t) # None
    THEN TopLayer(layers, Len(layers), t)
    ELSE root[t]

Visible(t) == VisibleIn(optimistic, cache, t)

\* cache.removeOptimistic(mutationId)
RemoveLayer(layers, id) == SelectSeq(layers, LAMBDA l : l.id # id)

\* the mutation is sent without an optimisticResponse
AddLayer_NoOptimisticResponse(layers, id, t, s) == layers

\* mutate({optimisticResponse}) records a layer holding {...task, status}
AddLayer(layers, id, t, s) == Append(layers, [id |-> id, task |-> t, status |-> s])

\* ----------------------------------------------------------------- helpers
\* an unknown drop zone falls back to the first column
statusMapping_Default(dropZone) ==
  CASE dropZone = "column-IN_PROGRESS" -> "IN_PROGRESS"
    [] dropZone = "column-DONE" -> "DONE"
    [] OTHER -> "TODO"

\* statusMapping[dropZone] of handleDragEnd; None is `undefined`
statusMapping(dropZone) ==
  CASE dropZone = "column-TODO" -> "TODO"
    [] dropZone = "column-IN_PROGRESS" -> "IN_PROGRESS"
    [] dropZone = "column-DONE" -> "DONE"
    [] OTHER -> None

\* tasks.find(task => task.id === taskId): None when the id is not listed
FindTask(taskId) == IF taskId \in Tasks THEN taskId ELSE None

\* the early returns of handleDragEnd: TRUE when the handler goes on to mutate
DragProceeds(active, over) ==
  /\ over # None
  /\ statusMapping(over) # None
  /\ FindTask(active) # None
  /\ Visible(active) # statusMapping(over)

\* the same-status check is left out
MobileProceeds_Unchecked(t, newStatus) == TRUE

\* the early return of handleMobileStatusChange
MobileProceeds(t, newStatus) == Visible(t) # newStatus

\* follow-up updateTaskStatus calls that in-flight updateTask calls still owe
Owed == {r \in reqs : r.next # None}

\* room for n more mutations within MaxReq
Room(n) == (nextId - 1) + Cardinality(Owed) + n <= MaxReq

\* a modal is on screen; its backdrop covers the board
ModalOpen == showEditTask /\ selectedTask # NoTask

\* the mutation a handler is awaiting: what was sent and what the handler's
\* closure holds (prev is currentTask.status, next the status still to send)
NewReq(id, kind, t, s, origin, step, next) ==
  [id |-> id, kind |-> kind, task |-> t, status |-> s, origin |-> origin,
   step |-> step, next |-> next, prev |-> Visible(t), phase |-> "sent",
   record |-> None, live |-> TRUE]

NoRequest == [id |-> 0, status |-> None, fate |-> None]

\* history: a status request for task t was issued
Issued(hist, id, t, s) ==
  [hist EXCEPT ![t] = [id |-> id, status |-> s, fate |-> "pending"]]

\* history: request r settled with the given fate; what is kept of the request
\* issued last is the status it asked for, once accepted as requested
Fated(hist, r, fate) ==
  IF r.kind = "status" /\ hist[r.task].id = r.id
    THEN [hist EXCEPT ![r.task] =
            IF fate = "echo" THEN [id |-> 0, status |-> r.status, fate |-> fate]
                             ELSE NoRequest]
    ELSE hist

\* ProjectType.taskCount / completedTasks as the back end computes them from
\* the project's tasks
Counters(store) ==
  [taskCount |-> Cardinality(Tasks),
   completedTasks |-> Cardinality({t \in Tasks : store[t] = "DONE"})]

\* -------------------------------------------------------------------- Init
Init ==
  /\ server = InitialStatus
  /\ cache = server
  /\ optimistic = <<>>
  /\ reqs = {}
  /\ nextId = 1
  /\ refetch = [phase |-> "idle", snap |-> None]
  /\ activeTask = None
  /\ selectedTask = NoTask
  /\ showEditTask = FALSE
  /\ isLoading = FALSE
  /\ errors = <<>>
  /\ toasts = <<>>
  /\ toastCount = 0
  /\ newest = [t \in Tasks |-> NoRequest]
  /\ autoFired = {}
  /\ fadeOut = <<>>
  /\ committed = <<>>
  /\ notified = <<>>
  /\ project = Counters(InitialStatus)
  /\ projRefetch = [phase |-> "idle", snap |-> None]
  /\ showCreateTask = FALSE
  /\ showTaskDetail = FALSE
  /\ selectedTaskId = None
  /\ createIsLoading = FALSE
  /\ createErrors = <<>>
  /\ newComment = ""
  /\ authorEmail = ""
  /\ isSubmitting = FALSE
  /\ error = ""
  /\ calls = {}
  /\ nextCall = 1
  /\ stored = <<>>
  /\ showCreateProject = FALSE
  /\ showEditProject = FALSE
  /\ currentView = "tasks"
  /\ selectedProject = "p1"

\* -------------------------------------------------------------- toast list
\* showIntegrationToast(service, action, target): the payload handed to addToast
IntegrationToast(service, action, target) ==
  [type |-> "info", service |-> service, action |-> action, target |-> target,
   duration |-> 4000]

\* the e-mail toast is shown whether or not the task has an assignee
StatusToasts_AlwaysEmail(t, newStatus) ==
  <<IntegrationToast("email", "Status update sent", assigneeEmail(t)),
    IntegrationToast("slack",
         IF newStatus = "DONE" THEN "Task completion posted"
                               ELSE "Status change posted",
         room)>>

\* the notifications handleDragEnd / handleMobileStatusChange show after the
\* awaited mutation resolved, in the order the code shows them
StatusToasts(t, newStatus) ==
  (IF assigneeEmail(t) # ""
     THEN <<IntegrationToast("email", "Status update sent", assigneeEmail(t))>>
     ELSE <<>>)
  \o <<IntegrationToast("slack",
         IF newStatus = "DONE" THEN "Task completion posted"
                               ELSE "Status change posted",
         room)>>

\* addToast applied to each payload in turn: setToasts(prev => [...prev, newToast])
AddToasts(list, count, payloads) ==
  list \o [k \in 1..Len(payloads) |->
             [id |-> count + k] @@ payloads[k]]

\* ToastProvider.addToast(toast): the toast gets an id and goes to the end of
\* the list
addToast(toast) ==
  /\ toastCount < MaxToasts
  /\ toasts' = AddToasts(toasts, toastCount, <<toast>>)
  /\ toastCount' = toastCount + 1
  /\ UNCHANGED <<boardVars, timerVars, offToast>>

\* ToastProvider.showIntegrationToast(service, action, target)
showIntegrationToast(service, action, target) ==
  addToast(IntegrationToast(service, action, target))

\* a toast handed to addToast without a duration (0 stands for `undefined`)
PlainToast ==
  [type |-> "success", service |-> None, action |-> "Saved", target |-> "",
   duration |-> 0]

\* `toast.duration || 5000`: the delay of the auto-dismiss timer
Delay(toast) == IF toast.duration # 0 THEN toast.duration ELSE 5000

\* the removal takes the oldest toast off the list, whatever the id
removeToast_Oldest(list, id) == IF list = <<>> THEN list ELSE Tail(list)

\* ToastProvider.removeToast(id): toasts.filter(toast => toast.id !== id)
removeToast(list, id) == SelectSeq(list, LAMBDA x : x.id # id)

\* a Toast component is mounted for every toast of the list
Mounted(id) == \E i \in 1..Len(toasts) : toasts[i].id = id

\* the toast with the given id, once it is in the list
ToastOf(id) == CHOOSE x \in {toasts[i] : i \in 1..Len(toasts)} : x.id = id

\* number of pending fade-out timers of toast id
Pending(id) == IF id \in DOMAIN fadeOut THEN fadeOut[id] ELSE 0

\* Toast.isVisible: set by the mount effect, cleared by handleClose
isVisible(id) == Mounted(id) /\ Pending(id) = 0

\* timers with one fade-out timer more (n = 1) or less (n = -1) for toast id
Scheduled(id, n) ==
  LET ids == {i \in DOMAIN fadeOut \cup {id} :
                Pending(i) + (IF i = id THEN n ELSE 0) > 0}
  IN  [i \in ids |-> Pending(i) + (IF i = id THEN n ELSE 0)]

\* the close hides the toast and never takes it off the list
ToastHandleClose_NoRemoval(id) == UNCHANGED fadeOut

\* Toast.handleClose: setIsVisible(false), then onClose(toast.id) after 300 ms
ToastHandleClose(id) == fadeOut' = Scheduled(id, 1)

\* Toast: the auto-dismiss timer set by the mount effect fires after
\* Delay(toast) ms and calls handleClose
autoDismissTimer(id) ==
  /\ Mounted(id)
  /\ id \notin autoFired
  /\ Delay(ToastOf(id)) > 0
  /\ autoFired' = autoFired \cup {id}
  /\ ToastHandleClose(id)
  /\ UNCHANGED <<boardVars, toastVars, offToast>>

\* Toast: the close button calls handleClose
closeButton(id) ==
  /\ Mounted(id)
  /\ Pending(id) < MaxFade
  /\ ToastHandleClose(id)
  /\ UNCHANGED <<boardVars, toastVars, autoFired, offToast>>

\* the removal of a toast also reverts what the board shows optimistically
fadeOutTimer_Reverting(id) ==
  /\ Pending(id) > 0
  /\ fadeOut' = Scheduled(id, -1)
  /\ toasts' = removeToast(toasts, id)
  /\ autoFired' = autoFired \ {id}
  /\ optimistic' = <<>>
  /\ UNCHANGED <<server, cache, reqs, nextId, refetch, activeTask,
                 selectedTask, showEditTask, isLoading, errors, newest,
                 toastCount, offToast>>

\* Toast: a fade-out timer fires and calls onClose(toast.id), which is
\* removeToast; the Toast unmounts and its effect cleanup clears the
\* auto-dismiss timer.  Fade-out timers are not cleared by the cleanup.
fadeOutTimer(id) ==
  /\ Pending(id) > 0
  /\ fadeOut' = Scheduled(id, -1)
  /\ toasts' = removeToast(toasts, id)
  /\ autoFired' = autoFired \ {id}
  /\ UNCHANGED <<boardVars, toastCount, offToast>>

\* ------------------------------------------------------------------ board
\* TaskBoard.handleDragEnd up to the awaited updateTaskStatus call
handleDragEnd(active, over) ==
  /\ ~ModalOpen
  /\ activeTask' = None
  /\ UNCHANGED <<server, cache, refetch, selectedTask, showEditTask, isLoading,
                 errors, toasts, toastCount>>
  /\ IF DragProceeds(active, over)
       THEN /\ Room(1)
            /\ reqs' = reqs \cup {NewReq(nextId, "status", active,
                                         statusMapping(over), "board", "board",
                                         None)}
            /\ optimistic' = AddLayer(optimistic, nextId, active,
                                      statusMapping(over))
            /\ nextId' = nextId + 1
            /\ newest' = Issued(newest, nextId, active, statusMapping(over))
       ELSE UNCHANGED <<reqs, optimistic, nextId, newest>>

\* TaskBoard.handleMobileStatusChange up to the awaited updateTaskStatus call
handleMobileStatusChange(t, newStatus) ==
  /\ ~ModalOpen
  /\ UNCHANGED <<server, cache, refetch, activeTask, selectedTask,
                 showEditTask, isLoading, errors, toasts, toastCount>>
  /\ IF MobileProceeds(t, newStatus)
       THEN /\ Room(1)
            /\ reqs' = reqs \cup {NewReq(nextId, "status", t, newStatus,
                                         "board", "board", None)}
            /\ optimistic' = AddLayer(optimistic, nextId, t, newStatus)
            /\ nextId' = nextId + 1
            /\ newest' = Issued(newest, nextId, t, newStatus)
       ELSE UNCHANGED <<reqs, optimistic, nextId, newest>>

\* ------------------------------------------------------------ edit dialog
\* App: onEditTask={(task) => { setSelectedTask(task); setShowEditTask(true) }}
onEditTask(t) ==
  /\ ~ModalOpen
  /\ selectedTask' = [id |-> t, status |-> Visible(t)]
  /\ showEditTask' = TRUE
  /\ isLoading' = FALSE
  /\ errors' = <<>>
  /\ UNCHANGED <<activeTask, server, cache, optimistic, reqs, nextId, refetch,
                 toasts, toastCount,
                 newest>>

\* the EditTaskModal instance is unmounted: its pending submits lose their state
Unmounted(rs) ==
  {IF r.origin = "modal" THEN [r EXCEPT !.live = FALSE] ELSE r : r \in rs}

\* EditTaskModal.handleClose -> App.closeAllModals (Escape, backdrop, X, Cancel)
handleClose ==
  /\ ModalOpen
  /\ errors' = <<>>
  /\ showEditTask' = FALSE
  /\ selectedTask' = NoTask
  /\ isLoading' = FALSE
  /\ reqs' = Unmounted(reqs)
  /\ UNCHANGED <<activeTask, server, cache, optimistic, nextId, refetch,
                 toasts, toastCount,
                 newest>>

\* EditTaskModal.handleSubmit up to its first await
handleSubmit(status, otherFieldsChanged) ==
  /\ showEditTask
  /\ selectedTask # NoTask
  /\ ~isLoading
  /\ UNCHANGED <<activeTask, server, cache, optimistic, refetch,
                 selectedTask, showEditTask, toasts, toastCount>>
  /\ LET task == selectedTask
         statusChanged == status # task.status
     IN  /\ isLoading' = TRUE
         /\ errors' = <<>>
         /\ nextId' = nextId + 1
         /\ IF statusChanged /\ ~otherFieldsChanged
              THEN /\ Room(1)
                   /\ reqs' = reqs \cup {NewReq(nextId, "status", task.id,
                                           status, "modal", "quick", None)}
                   /\ newest' = Issued(newest, nextId, task.id, status)
              ELSE /\ Room(IF statusChanged THEN 2 ELSE 1)
                   /\ reqs' = reqs \cup {NewReq(nextId, "update", task.id,
                                 None, "modal", "full",
                                 IF statusChanged THEN status ELSE None)}
                   /\ UNCHANGED newest

\* ---------------------------------------------------------------- gateway
\* The back end accepts mutation r and answers with the task as it stores it
\* from then on, whose status is rec.
Accept(r, rec) ==
  /\ r \in reqs
  /\ r.phase = "sent"
  /\ reqs' = (reqs \ {r}) \cup {[r EXCEPT !.phase = "accepted",
                                           !.record = rec]}
  /\ server' = [server EXCEPT ![r.task] = rec]
  /\ UNCHANGED <<activeTask, cache, optimistic, nextId, refetch,
                 selectedTask, showEditTask, isLoading, errors, toasts,
                 toastCount, newest>>

\* updateTaskStatus stores the requested status; updateTask leaves the status
GatewayAccept(r) ==
  Accept(r, IF r.kind = "status" THEN r.status ELSE server[r.task])

\* The authoritative record of an accepted updateTaskStatus need not carry the
\* requested status: here the back end reports success and keeps the status
\* it has.
GatewayOverride(r) ==
  /\ r \in reqs
  /\ r.kind = "status"
  /\ server[r.task] # r.status
  /\ Accept(r, server[r.task])

\* The answers that can arrive for mutation r.  A mutation the back end did
\* not accept changed nothing there: it was rejected (success=false, task
\* null, with or without messages), failed with a GraphQL error (data null),
\* or never arrived (transport failure).
Answers(r) ==
  IF r.phase = "accepted"
    THEN {[outcome |-> "accepted", record |-> r.record, errs |-> <<>>]}
    ELSE {[outcome |-> "rejected", record |-> None, errs |-> e] :
            e \in (IF r.origin = "modal" THEN {<<"Invalid status">>, <<>>}
                                         ELSE {<<"Invalid status">>})}
         \cup {[outcome |-> "gqlError", record |-> None, errs |-> <<>>],
               [outcome |-> "throw", record |-> None, errs |-> <<>>]}

\* The back end answers the refetched queries with its current tasks.
RefetchServed ==
  /\ refetch.phase = "sent"
  /\ refetch' = [phase |-> "replied", snap |-> server]
  /\ UNCHANGED <<activeTask, server, cache, optimistic, reqs, nextId,
                 selectedTask, showEditTask, isLoading, errors, toasts,
                 toastCount, newest>>

\* The refetched result is written to the root layer of the cache.
RefetchArrived ==
  /\ refetch.phase = "replied"
  /\ cache' = refetch.snap
  /\ refetch' = [phase |-> "idle", snap |-> None]
  /\ UNCHANGED <<activeTask, server, optimistic, reqs, nextId,
                 selectedTask, showEditTask, isLoading, errors, toasts,
                 toastCount, newest>>

\* ------------------------------------------------------- mutation settles
\* errorPolicy of the useMutation hook that sent the mutation:
\* TaskBoard passes 'all', EditTaskModal leaves the default 'none'
errorPolicy(origin) == IF origin = "modal" THEN "none" ELSE "all"

\* TRUE when the awaited promise rejects (control goes to the catch block)
Throws(r, a) ==
  \/ a.outcome = "throw"
  \/ a.outcome = "gqlError" /\ errorPolicy(r.origin) = "none"

\* the result counts as a success whatever it says
Success_Unchecked(a) == TRUE

\* result.data?.<mutation>?.success
Success(a) == a.outcome = "accepted"

\* the task of the response is written to the cache without a look at the
\* outcome: a rejection's `task: null` leaves the task without a status
ApolloSettle_Unchecked(r, a) ==
  /\ cache' = [cache EXCEPT ![r.task] = a.record]
  /\ optimistic' = RemoveLayer(optimistic, r.id)
  /\ refetch' = IF Throws(r, a) THEN refetch
                ELSE [phase |-> "sent", snap |-> None]

\* Apollo's part of settling mutation r: write the returned record to the root
\* layer, drop the mutation's optimistic layer, start the refetchQueries
ApolloSettle(r, a) ==
  /\ cache' = IF a.outcome = "accepted"
                THEN [cache EXCEPT ![r.task] = a.record] ELSE cache
  /\ optimistic' = RemoveLayer(optimistic, r.id)
  /\ refetch' = IF Throws(r, a) THEN refetch
                ELSE [phase |-> "sent", snap |-> None]

\* history: how answer a leaves request r
Fate(r, a) ==
  IF a.outcome # "accepted" THEN "failed"
  ELSE IF a.record = r.status THEN "echo" ELSE "differs"

\* the errors are shown and the spinner is left running
ShowErrors_NoFinally(r, list) ==
  /\ errors' = IF r.live THEN list ELSE errors
  /\ UNCHANGED isLoading
  /\ reqs' = reqs \ {r}
  /\ UNCHANGED <<showEditTask, selectedTask, nextId>>

\* setErrors / setIsLoading of a submit whose EditTaskModal is still mounted
ShowErrors(r, list) ==
  /\ errors' = IF r.live THEN list ELSE errors
  /\ isLoading' = IF r.live THEN FALSE ELSE isLoading
  /\ reqs' = reqs \ {r}
  /\ UNCHANGED <<showEditTask, selectedTask, nextId>>

\* onClose() of a submit: App.closeAllModals, then the finally block
CloseFromSubmit(r) ==
  /\ showEditTask' = FALSE
  /\ selectedTask' = NoTask
  /\ isLoading' = FALSE
  /\ errors' = <<>>
  /\ reqs' = Unmounted(reqs \ {r})
  /\ UNCHANGED nextId

\* The response of mutation r arrives; the handler awaiting it runs to its end
\* (or to its next await).
MutationSettled(r, a) ==
  /\ r \in reqs
  /\ a \in Answers(r)
  /\ ApolloSettle(r, a)
  /\ UNCHANGED <<server, activeTask>>
  /\ CASE r.step = "board" ->
            \* handleDragEnd / handleMobileStatusChange after the await
            /\ reqs' = reqs \ {r}
            /\ newest' = Fated(newest, r, Fate(r, a))
            /\ IF Throws(r, a)
                 THEN UNCHANGED <<toasts, toastCount>>
                 ELSE /\ toasts' = AddToasts(toasts, toastCount,
                                             StatusToasts(r.task, r.status))
                      /\ toastCount' = toastCount
                                       + Len(StatusToasts(r.task, r.status))
            /\ UNCHANGED <<selectedTask, showEditTask, isLoading, errors,
                           nextId>>
       [] r.step = "quick" ->
            \* handleSubmit, quick status update
            /\ UNCHANGED <<toasts, toastCount>>
            /\ newest' = Fated(newest, r, Fate(r, a))
            /\ IF Throws(r, a)
                 THEN ShowErrors(r, <<"Network error. Please try again.">>)
                 ELSE IF Success(a)
                 THEN CloseFromSubmit(r)
                 ELSE ShowErrors(r, a.errs)
       [] r.step = "full" ->
            \* handleSubmit, full update: updateTask settled
            /\ UNCHANGED <<toasts, toastCount>>
            /\ IF Throws(r, a)
                 THEN /\ ShowErrors(r, <<"Network error. Please try again.">>)
                      /\ UNCHANGED newest
                 ELSE IF ~Success(a)
                 THEN /\ ShowErrors(r, a.errs)
                      /\ UNCHANGED newest
                 ELSE IF r.next # None
                 THEN \* statusChanged: await updateTaskStatus next
                      /\ reqs' = (reqs \ {r}) \cup
                            {[NewReq(nextId, "status", r.task, r.next, "modal",
                                     "followup", None)
                                EXCEPT !.live = r.live,
                                       !.prev = VisibleIn(optimistic', cache',
                                                          r.task)]}
                      /\ nextId' = nextId + 1
                      /\ newest' = Issued(newest, nextId, r.task, r.next)
                      /\ UNCHANGED <<selectedTask, showEditTask, isLoading,
                                     errors>>
                 ELSE /\ CloseFromSubmit(r)
                      /\ UNCHANGED newest
       [] r.step = "followup" ->
            \* handleSubmit, full update: the separate status update settled
            /\ UNCHANGED <<toasts, toastCount>>
            /\ newest' = Fated(newest, r, Fate(r, a))
            /\ IF Throws(r, a)
                 THEN ShowErrors(r, <<"Network error. Please try again.">>)
                 ELSE CloseFromSubmit(r)

Settling == \E r \in reqs : \E a \in Answers(r) : MutationSettled(r, a)

\* ------------------------------------------------------------ project list
\* TaskBoard's refetchQueries name PROJECTS_BY_ORGANIZATION next to
\* TASKS_BY_PROJECT; EditTaskModal's name TASKS_BY_PROJECT only
RefetchesProjects(origin) == origin = "board"

\* the response of mutation r arrives and its refetchQueries start
SettlingWithProjects ==
  \E r \in reqs : \E a \in Answers(r) :
    /\ MutationSettled(r, a)
    /\ projRefetch' = IF RefetchesProjects(r.origin) /\ ~Throws(r, a)
                        THEN [phase |-> "sent", snap |-> None]
                        ELSE projRefetch
    /\ UNCHANGED project

\* The back end answers PROJECTS_BY_ORGANIZATION with the counters computed
\* from its tasks.
ProjectsServed ==
  /\ projRefetch.phase = "sent"
  /\ projRefetch' = [phase |-> "replied", snap |-> Counters(server)]
  /\ UNCHANGED <<boardVars, toastVars, project>>

\* The refetched projects are written to the cache.
ProjectsArrived ==
  /\ projRefetch.phase = "replied"
  /\ project' = projRefetch.snap
  /\ projRefetch' = [phase |-> "idle", snap |-> None]
  /\ UNCHANGED <<boardVars, toastVars>>

\* ------------------------------------------- creating tasks and commenting
\* sample field values
Titles == {"", "Fix login"}

Emails == {"", "jane@host", "jane@example.com", "john@example.com"}

Comments == {"", " ", "ok"}

\* String.prototype.trim on the sample values
trim(str) == IF str = " " THEN "" ELSE str

\* /^[^\s@]+@[^\s@]+\.[^\s@]+$/.test(value) on the sample values
ValidEmail(value) == value \in {"jane@example.com", "john@example.com"}

\* the modals App renders with isOpen = true: CreateProjectModal (an
\* organization is selected throughout), EditProjectModal and CreateTaskModal
\* (rendered while a project is selected), EditTaskModal (while a task is
\* selected), TaskDetailModal (while a task id is selected)
OpenModals ==
  {m \in {"CreateProject", "EditProject", "CreateTask", "EditTask",
          "TaskDetail"} :
     \/ m = "CreateProject" /\ showCreateProject
     \/ m = "EditProject" /\ showEditProject /\ selectedProject # None
     \/ m = "CreateTask" /\ showCreateTask /\ selectedProject # None
     \/ m = "EditTask" /\ showEditTask /\ selectedTask # NoTask
     \/ m = "TaskDetail" /\ showTaskDetail /\ selectedTaskId # None}

\* a modal covers the page
AnyModal == OpenModals # {}

\* App shows the TaskBoard of the selected project
BoardShown == currentView = "tasks" /\ selectedProject # None

\* the handlers of an unmounted TaskCommentsPanel go on, their setters without
\* effect; CreateTaskModal stays mounted while a project is selected
PanelUnmounted(cs) ==
  {IF c.kind = "comment" THEN [c EXCEPT !.live = FALSE] ELSE c : c \in cs}

\* App.closeAllModals, its part beside showEditTask and selectedTask;
\* TaskDetailModal and with it TaskCommentsPanel unmount (selectedTaskId is
\* cleared)
CloseOthers ==
  /\ showCreateProject' = FALSE
  /\ showEditProject' = FALSE
  /\ showCreateTask' = FALSE
  /\ showTaskDetail' = FALSE
  /\ selectedTaskId' = None
  /\ newComment' = ""
  /\ authorEmail' = ""
  /\ isSubmitting' = FALSE
  /\ error' = ""

\* App.closeAllModals followed, in the same handler, by setShowEditTask(edit):
\* the state updates of one handler are applied together; EditTaskModal
\* unmounts (selectedTask is cleared)
closeAllModalsThen(edit) ==
  /\ showEditTask' = edit
  /\ selectedTask' = NoTask
  /\ reqs' = Unmounted(reqs)
  /\ isLoading' = FALSE
  /\ errors' = <<>>
  /\ CloseOthers

\* App.closeAllModals
closeAllModals == closeAllModalsThen(FALSE)

\* what the handlers that close the modals never touch
ClosingFrame ==
  UNCHANGED <<server, cache, optimistic, nextId, activeTask, newest,
              timerVars, orderVars, projectVars, navVars>>

\* what the handlers of the two forms never touch
ComposeFrame == ClosingFrame /\ UNCHANGED <<isLoading, errors>>

\* TaskBoard's "Add Task" button: App.onCreateTask
onCreateTask ==
  /\ BoardShown
  /\ ~AnyModal
  /\ showCreateTask' = TRUE
  /\ UNCHANGED <<boardVars, toastVars, showTaskDetail, selectedTaskId,
                 showCreateProject, showEditProject, formVars, callVars>>
  /\ ComposeFrame

\* a click on a task card: App.handleTaskSelect; the comments panel mounts
handleTaskSelect(t) ==
  /\ BoardShown
  /\ ~AnyModal
  /\ selectedTask' = [id |-> t, status |-> Visible(t)]
  /\ selectedTaskId' = t
  /\ showTaskDetail' = TRUE
  /\ UNCHANGED <<reqs, refetch, showEditTask, toastVars, showCreateTask,
                 showCreateProject, showEditProject, formVars, callVars>>
  /\ ComposeFrame

\* CreateTaskModal.handleClose (Escape, backdrop, X, Cancel)
CreateHandleClose ==
  /\ "CreateTask" \in OpenModals
  /\ createErrors' = <<>>
  /\ closeAllModals
  /\ calls' = PanelUnmounted(calls)
  /\ UNCHANGED <<refetch, toastVars, createIsLoading, nextCall, stored>>
  /\ ClosingFrame

\* TaskDetailModal's onClose
DetailClose ==
  /\ "TaskDetail" \in OpenModals
  /\ closeAllModals
  /\ calls' = PanelUnmounted(calls)
  /\ UNCHANGED <<refetch, toastVars, createIsLoading, createErrors, nextCall,
                 stored>>
  /\ ClosingFrame

\* TaskDetailModal.handleEditClick: onClose(), which is App.closeAllModals,
\* then onEditTask(), which is setShowTaskDetail(false); setShowEditTask(true)
handleEditClick ==
  /\ "TaskDetail" \in OpenModals
  /\ closeAllModalsThen(TRUE)
  /\ calls' = PanelUnmounted(calls)
  /\ UNCHANGED <<refetch, toastVars, createIsLoading, createErrors, nextCall,
                 stored>>
  /\ ClosingFrame

\* what the handlers of the project list never touch
NavFrame ==
  UNCHANGED <<boardVars, toastVars, timerVars, orderVars, projectVars,
              showCreateTask, showTaskDetail, selectedTaskId, newComment,
              authorEmail, isSubmitting, error, nextCall, stored>>

\* the header's "Back to Projects" button: App.handleBackToProjects; the
\* TaskBoard and CreateTaskModal unmount
handleBackToProjects ==
  /\ BoardShown
  /\ ~AnyModal
  /\ selectedProject' = None
  /\ currentView' = "projects"
  /\ createIsLoading' = FALSE
  /\ createErrors' = <<>>
  /\ calls' = {IF c.kind = "create" THEN [c EXCEPT !.live = FALSE] ELSE c :
                c \in calls}
  /\ UNCHANGED <<showCreateProject, showEditProject>>
  /\ NavFrame

\* a click on a project card: App.handleProjectSelect
handleProjectSelect(p) ==
  /\ currentView = "projects"
  /\ ~AnyModal
  /\ selectedProject' = p
  /\ currentView' = "tasks"
  /\ UNCHANGED <<showCreateProject, showEditProject, createIsLoading,
                 createErrors, calls>>
  /\ NavFrame

\* ProjectList's "New Project" button: App.onCreateProject
onCreateProject ==
  /\ currentView = "projects"
  /\ ~AnyModal
  /\ showCreateProject' = TRUE
  /\ UNCHANGED <<showEditProject, navVars, createIsLoading, createErrors,
                 calls>>
  /\ NavFrame

\* the edit button of a project card: App.handleEditProject
handleEditProject(p) ==
  /\ currentView = "projects"
  /\ ~AnyModal
  /\ selectedProject' = p
  /\ showEditProject' = TRUE
  /\ UNCHANGED <<showCreateProject, currentView, createIsLoading,
                 createErrors, calls>>
  /\ NavFrame

\* CreateProjectModal / EditProjectModal: handleClose (Escape, backdrop, X,
\* Cancel), which is setErrors([]) of the modal and App.closeAllModals
ProjectHandleClose ==
  /\ \/ "CreateProject" \in OpenModals
     \/ "EditProject" \in OpenModals
  /\ closeAllModals
  /\ calls' = PanelUnmounted(calls)
  /\ UNCHANGED <<refetch, toastVars, createIsLoading, createErrors, nextCall,
                 stored>>
  /\ ClosingFrame

\* the edit button of a task card, with the whole of App in view
AppEditTask(t) ==
  /\ BoardShown
  /\ ~AnyModal
  /\ onEditTask(t)
  /\ UNCHANGED offBoard

\* what a close of EditTaskModal leaves alone outside the dialog
EditCloseFrame ==
  UNCHANGED <<timerVars, orderVars, projectVars, navVars, createIsLoading,
              createErrors, nextCall, stored>>

\* EditTaskModal.handleClose with the whole of App.closeAllModals
AppEditClose ==
  /\ handleClose
  /\ CloseOthers
  /\ calls' = PanelUnmounted(calls)
  /\ EditCloseFrame

\* handleSubmit of mutation r reaches its onClose() when answer a arrives
Closes(r, a) ==
  /\ r.origin = "modal"
  /\ ~Throws(r, a)
  /\ \/ r.step = "quick" /\ Success(a)
     \/ r.step = "full" /\ Success(a) /\ r.next = None
     \/ r.step = "followup"

\* the response of a mutation arrives, with the whole of App.closeAllModals
\* where handleSubmit calls onClose()
AppSettling ==
  \E r \in reqs : \E a \in Answers(r) :
    /\ MutationSettled(r, a)
    /\ IF Closes(r, a)
         THEN /\ CloseOthers
              /\ calls' = PanelUnmounted(calls)
              /\ EditCloseFrame
         ELSE UNCHANGED offBoard

\* a createTask / addTaskComment mutation on its way
NewCall(id, kind, t, assignee, author) ==
  [id |-> id, kind |-> kind, task |-> t, assignee |-> assignee,
   author |-> author, phase |-> "sent", live |-> TRUE]

\* Form.handleSubmit (validateForm) and CreateTaskModal.handleSubmit up to its
\* await; the submit button is disabled while isLoading
CreateHandleSubmit(title, assignee) ==
  /\ "CreateTask" \in OpenModals
  /\ ~createIsLoading
  /\ nextCall <= MaxCalls
  /\ title # ""
  /\ assignee = "" \/ ValidEmail(assignee)
  /\ createIsLoading' = TRUE
  /\ createErrors' = <<>>
  /\ calls' = calls \cup {NewCall(nextCall, "create", None, assignee, "")}
  /\ nextCall' = nextCall + 1
  /\ UNCHANGED <<boardVars, toastVars, appVars, newComment, authorEmail,
                 isSubmitting, error, stored>>
  /\ ComposeFrame

\* the fields of the comment form, disabled while isSubmitting
setNewComment(value) ==
  /\ "TaskDetail" \in OpenModals
  /\ ~isSubmitting
  /\ newComment' = value
  /\ UNCHANGED <<boardVars, toastVars, appVars, createIsLoading, createErrors,
                 authorEmail, isSubmitting, error, callVars>>
  /\ ComposeFrame

setAuthorEmail(value) ==
  /\ "TaskDetail" \in OpenModals
  /\ ~isSubmitting
  /\ authorEmail' = value
  /\ UNCHANGED <<boardVars, toastVars, appVars, createIsLoading, createErrors,
                 newComment, isSubmitting, error, callVars>>
  /\ ComposeFrame

\* TaskCommentsPanel.handleSubmit up to its await; the submit button is
\* disabled while isSubmitting or while a field is blank
CommentHandleSubmit ==
  /\ "TaskDetail" \in OpenModals
  /\ ~isSubmitting
  /\ trim(newComment) # ""
  /\ trim(authorEmail) # ""
  /\ nextCall <= MaxCalls
  /\ IF trim(newComment) = "" \/ trim(authorEmail) = ""
       THEN /\ error' = "Both comment and email are required"
            /\ UNCHANGED <<isSubmitting, callVars>>
       ELSE IF ~ValidEmail(authorEmail)
       THEN /\ error' = "Please enter a valid email address"
            /\ UNCHANGED <<isSubmitting, callVars>>
       ELSE /\ isSubmitting' = TRUE
            /\ error' = ""
            /\ calls' = calls \cup
                  {NewCall(nextCall, "comment", selectedTaskId,
                           assigneeEmail(selectedTaskId), trim(authorEmail))}
            /\ nextCall' = nextCall + 1
            /\ UNCHANGED stored
  /\ UNCHANGED <<boardVars, toastVars, appVars, createIsLoading, createErrors,
                 newComment, authorEmail>>
  /\ ComposeFrame

\* The back end creates the task or stores the comment.
CallAccept(c) ==
  /\ c \in calls
  /\ c.phase = "sent"
  /\ calls' = (calls \ {c}) \cup {[c EXCEPT !.phase = "accepted"]}
  /\ stored' = Append(stored, [kind |-> c.kind, task |-> c.task,
                                assignee |-> c.assignee, author |-> c.author])
  /\ UNCHANGED <<boardVars, toastVars, appVars, formVars, nextCall>>
  /\ ComposeFrame

\* The answers that can arrive for mutation c: success, or, when the back end
\* did not accept it, success=false with messages, a GraphQL error (data
\* null), or a network failure.
CallAnswers(c) ==
  IF c.phase = "accepted"
    THEN {[outcome |-> "accepted", errs |-> <<>>]}
    ELSE {[outcome |-> "rejected", errs |-> <<"Invalid input">>],
          [outcome |-> "gqlError", errs |-> <<>>],
          [outcome |-> "throw", errs |-> <<>>]}

\* both hooks pass errorPolicy: 'all': only a network failure rejects the
\* promise
CallThrows(a) == a.outcome = "throw"

\* refetchQueries of createTask and of addTaskComment: TASKS_BY_PROJECT
CallRefetch(a) ==
  refetch' = IF CallThrows(a) THEN refetch
             ELSE [phase |-> "sent", snap |-> None]

\* The response of createTask arrives: CreateTaskModal.handleSubmit after its
\* await.
CreateSettled(c, a) ==
  /\ c \in calls
  /\ c.kind = "create"
  /\ a \in CallAnswers(c)
  /\ CallRefetch(a)
  /\ createIsLoading' = FALSE
  /\ IF ~CallThrows(a) /\ a.outcome = "accepted"
       THEN /\ closeAllModals
            /\ calls' = PanelUnmounted(calls \ {c})
            /\ UNCHANGED createErrors
       ELSE /\ createErrors' =
                 IF ~c.live THEN createErrors
                 ELSE IF CallThrows(a)
                 THEN <<"Network error. Please try again.">>
                 ELSE IF a.outcome = "rejected" THEN a.errs
                 ELSE <<"Failed to create task">>
            /\ calls' = calls \ {c}
            /\ UNCHANGED <<reqs, selectedTask, showEditTask, isLoading,
                           errors, appVars,
                           newComment, authorEmail, isSubmitting, error>>
  /\ UNCHANGED <<toastVars, nextCall, stored>>
  /\ ClosingFrame

\* The response of addTaskComment arrives: TaskCommentsPanel.handleSubmit
\* after its await; the setters of an unmounted panel have no effect.
CommentSettled(c, a) ==
  /\ c \in calls
  /\ c.kind = "comment"
  /\ a \in CallAnswers(c)
  /\ CallRefetch(a)
  /\ calls' = calls \ {c}
  /\ IF ~c.live
       THEN UNCHANGED <<newComment, authorEmail, isSubmitting, error>>
       ELSE /\ isSubmitting' = FALSE
            /\ IF CallThrows(a)
                 THEN /\ error' = "Network error. Please try again."
                      /\ UNCHANGED <<newComment, authorEmail>>
                 ELSE IF a.outcome = "accepted"
                 THEN /\ newComment' = ""
                      /\ authorEmail' = ""
                      /\ UNCHANGED error
                 ELSE /\ error' = IF a.outcome = "rejected" THEN a.errs[1]
                                   ELSE "Failed to add comment"
                      /\ UNCHANGED <<newComment, authorEmail>>
  /\ UNCHANGED <<reqs, selectedTask, showEditTask, toastVars, appVars,
                 createIsLoading, createErrors, nextCall, stored>>
  /\ ComposeFrame

\* the response of some addTaskComment arrives
CommentSettling ==
  \E c \in calls : \E a \in CallAnswers(c) : CommentSettled(c, a)

\* ---------------------------------------------------------------- history
\* the back end accepts status request r: its transition is committed
Commits ==
  \E r \in reqs :
    /\ GatewayAccept(r)
    /\ committed' = Append(committed, [id |-> r.id, task |-> r.task])
    /\ UNCHANGED notified

\* the response of request r arrives; the board shows its toasts unless the
\* promise was rejected
Notifies ==
  \E r \in reqs : \E a \in Answers(r) :
    /\ MutationSettled(r, a)
    /\ notified' = IF Len(toasts') > Len(toasts)
                     THEN Append(notified, [id |-> r.id, task |-> r.task])
                     ELSE notified
    /\ UNCHANGED committed

\* -------------------------------------------------------------------- Next
\* the gestures on the board
BoardGesture ==
  \/ \E id \in DragIds, over \in DropZones : handleDragEnd(id, over)
  \/ \E t \in Tasks, s \in Statuses : handleMobileStatusChange(t, s)

\* the network: back end and responses
Network ==
  \/ \E r \in reqs : GatewayAccept(r)
  \/ Settling
  \/ RefetchServed
  \/ RefetchArrived

\* the toasts on screen go away by themselves
AutoDismiss ==
  \/ \E id \in 1..toastCount : autoDismissTimer(id)
  \/ \E id \in 1..toastCount : fadeOutTimer(id)

\* the timers and close buttons of the toasts on screen
ToastTimers ==
  \/ AutoDismiss
  \/ \E id \in 1..toastCount : closeButton(id)

\* the gestures on the card of the task without assignee
GestureOnUnassigned ==
  \/ \E over \in DropZones : handleDragEnd("t2", over)
  \/ \E s \in Statuses : handleMobileStatusChange("t2", s)

\* the callers of the toast list
ToastCallers ==
  \/ \E service \in {"email", "slack"} :
        showIntegrationToast(service, "Email sent", "user@example.com")
  \/ addToast(PlainToast)

\* the board on its own, with a back end free to answer with a record of its
\* own; toasts stay on the list
NextBoard ==
  \/ BoardGesture /\ UNCHANGED offBoard
  \/ Network /\ UNCHANGED offBoard
  \/ (\E r \in reqs : GatewayOverride(r)) /\ UNCHANGED offBoard

\* the board together with the edit dialog; toasts stay on the list
NextDialog ==
  \/ BoardGesture /\ UNCHANGED offBoard
  \/ Network /\ UNCHANGED offBoard
  \/ (\E t \in Tasks : onEditTask(t)) /\ UNCHANGED offBoard
  \/ handleClose /\ UNCHANGED offBoard
  \/ (\E s \in Statuses, o \in BOOLEAN : handleSubmit(s, o))
       /\ UNCHANGED offBoard

\* one card of the board together with the toasts its moves show, which go
\* away by themselves
NextNotify ==
  \/ GestureOnUnassigned /\ UNCHANGED offBoard
  \/ Network /\ UNCHANGED offBoard
  \/ AutoDismiss

\* the toast list on its own
NextToast ==
  \/ ToastCallers
  \/ ToastTimers

\* the board with the history of what was committed and what was notified
NextOrder ==
  \/ BoardGesture /\ UNCHANGED offBoard
  \/ Commits /\ UNCHANGED <<timerVars, projectVars, composeVars>>
  \/ Notifies /\ UNCHANGED <<timerVars, projectVars, composeVars>>
  \/ RefetchServed /\ UNCHANGED offBoard
  \/ RefetchArrived /\ UNCHANGED offBoard

\* the board and the edit dialog together with the cached project counters
NextProject ==
  \/ BoardGesture /\ UNCHANGED offBoard
  \/ (\E t \in Tasks : onEditTask(t))
       /\ UNCHANGED offBoard
  \/ handleClose /\ UNCHANGED offBoard
  \/ (\E s \in Statuses, o \in BOOLEAN : handleSubmit(s, o))
       /\ UNCHANGED offBoard
  \/ (\E r \in reqs : GatewayAccept(r))
       /\ UNCHANGED offBoard
  \/ SettlingWithProjects /\ UNCHANGED <<timerVars, orderVars, composeVars>>
  \/ RefetchServed /\ UNCHANGED offBoard
  \/ RefetchArrived /\ UNCHANGED offBoard
  \/ ProjectsServed /\ UNCHANGED <<timerVars, orderVars, composeVars>>
  \/ ProjectsArrived /\ UNCHANGED <<timerVars, orderVars, composeVars>>

\* a timer that is due fires
TimersFire ==
  \A id \in 1..MaxToasts :
    WF_vars(autoDismissTimer(id)) /\ WF_vars(fadeOutTimer(id))

SpecBoard == Init /\ [][NextBoard]_vars

SpecDialog == Init /\ [][NextDialog]_vars

SpecNotify == Init /\ [][NextNotify]_vars

\* creating tasks and commenting on them
NextCompose ==
  \/ onCreateTask
  \/ \E t \in Tasks : handleTaskSelect(t)
  \/ CreateHandleClose
  \/ DetailClose
  \/ \E title \in Titles, assignee \in Emails :
       CreateHandleSubmit(title, assignee)
  \/ \E value \in Comments : setNewComment(value)
  \/ \E value \in Emails : setAuthorEmail(value)
  \/ CommentHandleSubmit
  \/ \E c \in calls : CallAccept(c)
  \/ \E c \in calls : \E a \in CallAnswers(c) : CreateSettled(c, a)
  \/ \E c \in calls : \E a \in CallAnswers(c) : CommentSettled(c, a)
  \/ RefetchServed /\ UNCHANGED offBoard
  \/ RefetchArrived /\ UNCHANGED offBoard

\* the pages and modals of App, with the submits of EditTaskModal
NextApp ==
  \/ handleBackToProjects
  \/ \E p \in Projects : handleProjectSelect(p)
  \/ onCreateProject
  \/ \E p \in Projects : handleEditProject(p)
  \/ ProjectHandleClose
  \/ onCreateTask
  \/ CreateHandleClose
  \/ \E t \in Tasks : handleTaskSelect(t)
  \/ DetailClose
  \/ handleEditClick
  \/ \E t \in Tasks : AppEditTask(t)
  \/ AppEditClose
  \/ (\E s \in Statuses, o \in BOOLEAN : handleSubmit(s, o))
       /\ UNCHANGED offBoard
  \/ (\E r \in reqs : GatewayAccept(r)) /\ UNCHANGED offBoard
  \/ AppSettling
  \/ RefetchServed /\ UNCHANGED offBoard
  \/ RefetchArrived /\ UNCHANGED offBoard

\* the two forms with a loading flag, EditTaskModal and TaskCommentsPanel, used
\* on one task
NextLoading ==
  \/ AppEditTask("t1")
  \/ AppEditClose
  \/ (\E s \in Statuses, o \in BOOLEAN : handleSubmit(s, o))
       /\ UNCHANGED offBoard
  \/ (\E r \in reqs : GatewayAccept(r)) /\ UNCHANGED offBoard
  \/ AppSettling
  \/ handleTaskSelect("t1")
  \/ DetailClose
  \/ setNewComment("ok")
  \/ \E value \in {"jane@host", "jane@example.com"} : setAuthorEmail(value)
  \/ CommentHandleSubmit
  \/ \E c \in calls : CallAccept(c)
  \/ CommentSettling

SpecToast == Init /\ [][NextToast]_vars /\ TimersFire

SpecLoading == Init /\ [][NextLoading]_vars

SpecApp == Init /\ [][NextApp]_vars

SpecCompose == Init /\ [][NextCompose]_vars

SpecOrder == Init /\ [][NextOrder]_vars

SpecProject == Init /\ [][NextProject]_vars

\* ================================================================== claims
\* the drop zone of the column showing status s
Column(s) ==
  CASE s = "TODO" -> "column-TODO"
    [] s = "IN_PROGRESS" -> "column-IN_PROGRESS"
    [] s = "DONE" -> "column-DONE"

Columns == {Column(s) : s \in Statuses}

\* in this step the awaited result of mutation r arrives
Settles(r) == r \in reqs /\ \A q \in reqs' : q.id # r.id

\* ... and the gateway had not accepted it: it was rejected or failed
SettlesFailed(r) == Settles(r) /\ r.phase = "sent"

\* ... and the gateway had accepted it
SettlesAccepted(r) == Settles(r) /\ r.phase = "accepted"

\* r is a status request with no newer status request for its task in flight
IsNewest(r) ==
  /\ r.kind = "status"
  /\ \A q \in reqs : ~(q.kind = "status" /\ q.task = r.task /\ q.id > r.id)

\* C1: requesting, on the board, a status s other than the one task t shows
\* makes t show s in the very next state, in which the mutation is still on
\* its way to the gateway (no response has arrived).
C1_OptimisticWrite ==
  [][\A t \in Tasks, s \in Statuses :
       \/ /\ Visible(t)' = s
          /\ \E r \in reqs' : /\ r.id = nextId
                              /\ r.task = t
                              /\ r.status = s
                              /\ r.phase = "sent"
       \/ ~(/\ Visible(t) # s
            /\ handleDragEnd(t, Column(s)) \/ handleMobileStatusChange(t, s))
    ]_vars

\* a task shows a requested status the cache root does not hold yet
C1_Witness ==
  \E r \in reqs : /\ r.step = "board"
                  /\ r.phase = "sent"
                  /\ Visible(r.task) = r.status
                  /\ cache[r.task] # r.status
                  /\ server[r.task] # r.status

\* C2: when the gateway call of the status request issued last for task T
\* fails or is rejected, T shows again the status it showed right before that
\* request was issued, a valid status.
C2_RollbackOnFailure ==
  [][\A r \in reqs :
       (SettlesFailed(r) /\ IsNewest(r))
       => /\ Visible(r.task)' = r.prev
          /\ Visible(r.task)' \in Statuses]_vars

\* C3: a status request the gateway did not accept (transport error, GraphQL
\* error or success=false) adds no notification toast.
C3_NoNotificationOnFailure ==
  [][\A r \in reqs : SettlesFailed(r) => toasts' = toasts]_vars

\* C4: when the response of an accepted status request (the one issued last
\* for its task) has been processed, the task shows the status of the
\* authoritative record the gateway returned.
C4_AuthoritativeWins ==
  [][\A r \in reqs :
       (SettlesAccepted(r) /\ IsNewest(r))
       => Visible(r.task)' = r.record]_vars

\* C5: once the responses of all status requests for task T have arrived, the
\* one issued last and the one arriving last both accepted as requested, T
\* shows the status requested last, whatever the order of arrival.
C5_LastRequestedWins ==
  [][\A r \in reqs :
       (/\ SettlesAccepted(r)
        /\ r.kind = "status"
        /\ r.record = r.status
        /\ newest'[r.task].fate = "echo"
        /\ \A q \in reqs' : ~(q.kind = "status" /\ q.task = r.task))
       => Visible(r.task)' = newest'[r.task].status]_vars

\* C6: no task ever has more than one status request in flight.
C6_OneInFlightPerTask ==
  \A t \in Tasks :
    Cardinality({r \in reqs : r.kind = "status" /\ r.task = t}) <= 1

\* C7: the response of a status request that a newer request for the same
\* task has superseded changes neither the status the task shows nor the
\* notifications.
C7_StaleResponseIgnored ==
  [][\A r \in reqs :
       (/\ Settles(r)
        /\ r.kind = "status"
        /\ ~IsNewest(r))
       => /\ Visible(r.task)' = Visible(r.task)
          /\ toasts' = toasts]_vars

\* C8: asking for the status a task already shows (a drop on its own column,
\* its current status in the mobile menu) or submitting the edit dialog with
\* its status field unchanged sends no updateTaskStatus mutation, now or as a
\* follow-up, writes no optimistic layer and adds no notification, whether or
\* not a request for that task is in flight.  The dialog's status field is
\* unchanged when it equals task.status of the Task object the dialog was
\* opened with (statusChanged of handleSubmit); such a submit still sends
\* updateTask.
C8_Idempotence ==
  [][\/ /\ \A r \in reqs' \ reqs : r.kind = "update" /\ r.next = None
        /\ optimistic' = optimistic
        /\ toasts' = toasts
     \/ ~(\/ \E t \in Tasks : \/ handleDragEnd(t, Column(Visible(t)))
                              \/ handleMobileStatusChange(t, Visible(t))
          \/ \E o \in BOOLEAN : handleSubmit(selectedTask.status, o))
    ]_vars

\* A same-status gesture leaves every variable as it is, so a state in which it
\* can be made is also the state it leaves behind.  Here task T shows an
\* optimistic status whose request is in flight, the dialog was submitted for T
\* with its status unchanged (an updateTask without follow-up is on its way),
\* and T can be dropped on its own column or given its own status in the menu.
C8_Witness ==
  \E r \in reqs : /\ r.step = "board"
                  /\ Visible(r.task) = r.status
                  /\ cache[r.task] # r.status
                  /\ \E u \in reqs : /\ u.kind = "update"
                                      /\ u.task = r.task
                                      /\ u.next = None
                  /\ ENABLED handleMobileStatusChange(r.task, r.status)
                  /\ ENABLED handleDragEnd(r.task, Column(r.status))

\* C9: a drag that ends on no drop target, on a drop zone that is no column,
\* or for a card that is not in the task list sends no mutation, writes no
\* optimistic layer, adds no notification and leaves every task's status.
C9_LocalRejection ==
  [][\/ /\ reqs' = reqs
        /\ nextId' = nextId
        /\ optimistic' = optimistic
        /\ toasts' = toasts
        /\ server' = server
        /\ \A t \in Tasks : Visible(t)' = Visible(t)
     \/ ~ \E id \in DragIds, over \in DropZones :
            /\ over = None \/ over \notin Columns \/ id \notin Tasks
            /\ handleDragEnd(id, over)
    ]_vars

\* A drag that is turned down leaves every variable as it is, so a state in
\* which it can end is also the state it leaves behind.  Here a mutation is in
\* flight, and a drag can end with a card that left the list, on no drop
\* target, and on a drop zone that is no column.
C9_Witness ==
  /\ reqs # {}
  /\ ENABLED handleDragEnd("t_gone", "column-DONE")
  /\ \E t \in Tasks : /\ ENABLED handleDragEnd(t, None)
                      /\ ENABLED handleDragEnd(t, "trash")

\* C10: every status request that is rejected or fails ends with an error on
\* screen (the errors list of the open edit dialog is the only place the
\* front end shows one).
C10_FailureReported ==
  [][\A r \in reqs :
       (SettlesFailed(r) /\ r.kind = "status")
       => showEditTask' /\ errors' # <<>>]_vars

\* the toasts this step appends to the toast list
NewToasts == SubSeq(toasts', Len(toasts) + 1, Len(toasts'))

\* this step only appends to the toast list
Appends == Len(toasts') >= Len(toasts)
           /\ SubSeq(toasts', 1, Len(toasts)) = toasts

\* the event kind a toast announces, read off its text: the completion
\* wording, or the wording used for any status change
Kind(toast) ==
  IF toast.action = "Task completion posted" THEN "COMPLETED"
                                              ELSE "STATUS_CHANGED"

\* the toasts of list l shown for the given service
OfService(l, service) == SelectSeq(l, LAMBDA x : x.service = service)

\* C11: when an accepted change of an assigned task to DONE is processed,
\* exactly two notifications are added, an e-mail to the assignee and a chat
\* message to the organization's room, both announcing the completion, and
\* the stored status of no task changes.
C11_CompletionFanOut ==
  [][\A r \in reqs :
       (/\ SettlesAccepted(r)
        /\ r.step = "board"
        /\ r.status = "DONE"
        /\ r.record = "DONE"
        /\ assigneeEmail(r.task) # "")
       => /\ Appends
          /\ Len(NewToasts) = 2
          /\ \E i, j \in 1..Len(NewToasts) :
                /\ NewToasts[i].service = "email"
                /\ NewToasts[i].target = assigneeEmail(r.task)
                /\ Kind(NewToasts[i]) = "COMPLETED"
                /\ NewToasts[j].service = "slack"
                /\ NewToasts[j].target = room
                /\ Kind(NewToasts[j]) = "COMPLETED"
          /\ server' = server]_vars

\* C12: when an accepted status change issued from the board is processed, the
\* toasts added are one Slack toast, one e-mail toast exactly when the task
\* has an assignee address, and nothing else.
C12_ChannelSelection ==
  [][\A r \in reqs :
       (SettlesAccepted(r) /\ r.step = "board")
       => /\ Appends
          /\ Len(OfService(NewToasts, "slack")) = 1
          /\ Len(OfService(NewToasts, "email"))
               = (IF assigneeEmail(r.task) # "" THEN 1 ELSE 0)
          /\ Len(NewToasts) = Len(OfService(NewToasts, "slack"))
                              + Len(OfService(NewToasts, "email"))]_vars

\* accepted changes of the assigned and of the unassigned task have both been
\* processed: two Slack toasts and the one e-mail toast are on the list
C12_Witness ==
  /\ \A t \in Tasks : newest[t].fate = "echo"
  /\ Len(OfService(toasts, "slack")) = 2
  /\ Len(OfService(toasts, "email")) = 1
  /\ OfService(toasts, "email")[1].target = assigneeEmail("t1")

\* C13: when an accepted status change is processed, whichever path issued it,
\* a status-change notification is added, and a completion notification as
\* well when the new status is DONE.
C13_EveryPathNotifies ==
  [][\A r \in reqs :
       (SettlesAccepted(r) /\ r.kind = "status")
       => /\ Appends
          /\ \E i \in 1..Len(NewToasts) : Kind(NewToasts[i]) = "STATUS_CHANGED"
          /\ r.status = "DONE"
             => \E i \in 1..Len(NewToasts) : Kind(NewToasts[i]) = "COMPLETED"
    ]_vars

\* C16: every task always shows one of the three statuses.
C16_StatusValid == \A t \in Tasks : Visible(t) \in Statuses

\* a task shows an optimistic status over a different cached one, after a
\* request that was not accepted has been processed (its toasts are on the
\* list while the back end still stores the initial statuses)
C16_Witness ==
  /\ toasts # <<>>
  /\ server = InitialStatus
  /\ \E r \in reqs : /\ r.step = "board"
                      /\ r.phase = "sent"
                      /\ Visible(r.task) = r.status
                      /\ cache[r.task] # r.status

\* C14: a step of the toast list or of the toast timers stores no status and
\* sends no mutation; unless it is the processing of a response (which is
\* where the board shows its toasts), it leaves the cache, the optimistic
\* layers and the status every task shows as they are.
C14_ToastsLeaveTasksAlone ==
  [][(toasts' # toasts \/ timerVars' # timerVars)
     => /\ server' = server
        /\ nextId' = nextId
        /\ reqs' \subseteq reqs
        /\ reqs' = reqs
           => /\ UNCHANGED <<cache, optimistic, refetch>>
              /\ \A t \in Tasks : Visible(t)' = Visible(t)]_vars

\* a toast has been removed while a later request is in flight and shown
\* optimistically
C14_Witness ==
  /\ toastCount > Len(toasts)
  /\ \E r \in reqs : /\ Visible(r.task) = r.status
                      /\ cache[r.task] # r.status

\* C20: every toast on the list is eventually off the list, with no close
\* button needed: its auto-dismiss timer fires and the fade-out timer that
\* follows removes it.
C20_AutoDismiss ==
  \A id \in 1..MaxToasts : Mounted(id) ~> ~Mounted(id)

\* a toast added without a duration (default delay) is fading out after its
\* auto-dismiss timer fired, no close button having been used on it, and an
\* earlier toast is already off the list
C20_Witness ==
  /\ toastCount > Len(toasts)
  /\ \E id \in 1..toastCount : /\ Mounted(id)
                                /\ id \in autoFired
                                /\ Pending(id) = 1
                                /\ ToastOf(id).duration = 0

\* position of request id in a history
Pos(hist, id) == CHOOSE k \in 1..Len(hist) : hist[k].id = id

\* request id is in a history
In(hist, id) == \E k \in 1..Len(hist) : hist[k].id = id

\* C15: the notifications of two committed transitions of one task are shown
\* in the order in which the transitions were committed.
C15_NotificationOrder ==
  \A i, j \in 1..Len(notified) :
    (/\ i < j
     /\ notified[i].task = notified[j].task
     /\ In(committed, notified[i].id)
     /\ In(committed, notified[j].id))
    => Pos(committed, notified[i].id) < Pos(committed, notified[j].id)

\* nothing is on its way: no mutation, no refetch
Quiet ==
  /\ reqs = {}
  /\ refetch.phase = "idle"
  /\ projRefetch.phase = "idle"

\* C17: once every mutation and refetch has come back, the task count and the
\* completed-task count the client holds for the project are the ones of the
\* tasks the back end stores.
C17_CountersInStep == Quiet => project = Counters(server)

\* this step delivers the response of mutation c to its handler
Answered(c) == c \in calls /\ \A d \in calls' : d.id # c.id

\* the comment c was stored and the task's assignee is someone else than its
\* author
OwesCommentMail(c) ==
  /\ c.phase = "accepted"
  /\ c.assignee # ""
  /\ c.assignee # c.author

\* C18: when the response of addTaskComment arrives, exactly one notification
\* is shown, an email one addressed to the task's assignee, if the comment was
\* added and the assignee is present and is not the author; otherwise (no
\* assignee, author is the assignee, comment rejected or failed) none is
\* shown.  No chat notification is shown in either case.
C18_CommentNotification ==
  [][\A c \in calls :
       (c.kind = "comment" /\ Answered(c))
       => /\ Appends
          /\ IF OwesCommentMail(c)
               THEN /\ Len(NewToasts) = 1
                    /\ NewToasts[1].service = "email"
                    /\ NewToasts[1].target = c.assignee
               ELSE NewToasts = <<>>]_vars

\* C19: when createTask reports success for a task with an assignee address,
\* an email notification addressed to the assignee is shown; for a task
\* without assignee address no notification is shown.
C19_AssignmentNotification ==
  [][\A c \in calls :
       (c.kind = "create" /\ Answered(c) /\ c.phase = "accepted")
       => /\ Appends
          /\ IF c.assignee # ""
               THEN \E i \in 1..Len(NewToasts) :
                      /\ NewToasts[i].service = "email"
                      /\ NewToasts[i].target = c.assignee
               ELSE NewToasts = <<>>]_vars

\* the list without its k-th toast
Without(list, k) ==
  [i \in 1..(Len(list) - 1) |-> IF i < k THEN list[i] ELSE list[i + 1]]

\* this step invokes onClose(id), that is removeToast(id): a fade-out timer of
\* toast id fires
OnCloseInvoked(id) == Pending(id)' < Pending(id)

\* a step that invokes removeToast(id) takes the one toast with that id
\* off the list and keeps the others in their order, and leaves the list as
\* it is when that toast is already off (second close of the same toast); any
\* other step leaves the list as it is or appends one toast to it.
ToastListStep ==
  /\ \A id \in 1..MaxToasts :
       OnCloseInvoked(id)
       => IF Mounted(id)
            THEN \E k \in 1..Len(toasts) : /\ toasts[k].id = id
                                            /\ toasts' = Without(toasts, k)
            ELSE toasts' = toasts
  /\ (\A id \in 1..MaxToasts : ~OnCloseInvoked(id))
     => \/ toasts' = toasts
        \/ /\ Len(toasts') = Len(toasts) + 1
           /\ SubSeq(toasts', 1, Len(toasts)) = toasts

\* C21: every step treats the toast list as ToastListStep says: closing a
\* toast removes exactly that toast, adding one appends it, all others stay.
C21_OnlyTheTargetedToast == [][ToastListStep]_vars

\* the first toast was closed twice and its first fade-out timer has taken it
\* off the list; its second fade-out timer is still to call removeToast,
\* while a later toast is on the list
C21_Witness ==
  /\ \E id \in 1..toastCount : ~Mounted(id) /\ Pending(id) > 0
  /\ toasts # <<>>

\* C22: onClose(id) is never invoked for a toast whose Toast component is
\* unmounted (the toast is off the list).
C22_TimersCancelledOnUnmount ==
  [][\A id \in 1..MaxToasts : OnCloseInvoked(id) => Mounted(id)]_vars

\* C23: at most one of the five modals is rendered open.
C23_OneModalAtATime == Cardinality(OpenModals) <= 1

\* C24: the "Edit Task" button of the detail modal leaves the detail modal
\* closed and the edit modal open for the task the detail modal showed.
C24_EditFromDetail ==
  [][handleEditClick
     => /\ "TaskDetail" \notin OpenModals'
        /\ "EditTask" \in OpenModals'
        /\ selectedTask'.id = selectedTaskId]_vars

\* request r settles in this step after its EditTaskModal was dismissed
SettlesLate(r) ==
  /\ r \in reqs
  /\ ~r.live
  /\ \A q \in reqs' : q.id # r.id

\* C25: when a mutation of a dismissed EditTaskModal settles, the modals that
\* are open and the selected task stay as they are.
C25_LateCompletionHarmless ==
  [][(\E r \in reqs : SettlesLate(r))
     => /\ OpenModals' = OpenModals
        /\ selectedTask' = selectedTask
        /\ selectedTaskId' = selectedTaskId]_vars

\* C26: when a mutation sent by a submit of the EditTaskModal on screen is
\* rejected or fails, the modal stays open and shows an error.
C26_ClosesOnlyOnSuccess ==
  [][\A r \in reqs :
       (r.origin = "modal" /\ r.live /\ SettlesFailed(r))
       => showEditTask' /\ errors' # <<>>]_vars

\* the mutations sent in this step
Sent == {q \in reqs' : \A r \in reqs : r.id # q.id}

\* this step is a submit of the EditTaskModal
Submits == isLoading' /\ ~isLoading

EditInFlight == \E r \in reqs : r.origin = "modal" /\ r.live

\* a submit of the mounted TaskCommentsPanel has its mutation in flight
CommentInFlight == \E c \in calls : c.kind = "comment" /\ c.live

\* C28: isLoading of EditTaskModal and isSubmitting of TaskCommentsPanel are
\* true exactly while a mutation of a submit of theirs is in flight: a flag is
\* set when the submit sends its mutation and is false again as soon as the
\* last mutation of the submit has settled, however it ended.
C28_FlagsReset ==
  /\ isLoading <=> EditInFlight
  /\ isSubmitting <=> CommentInFlight

\* a submit of the edit dialog failed on the network and the dialog, still
\* open, shows the error with its flag back to false, after a comment submit
\* of the panel has settled
C28_Witness ==
  /\ ModalOpen
  /\ ~isLoading
  /\ errors = <<"Network error. Please try again.">>
  /\ nextCall > 1
  /\ calls = {}

====
